---- MODULE Spec2Model ----
(***************************************************************************)
(* A model of the changed_debug stdout callback (src/changed_debug.py):    *)
(* the option resolution, the dedup keyer, the event classifier, the       *)
(* incremental JSON emitter and the recap writer.                          *)
(*                                                                         *)
(* Python values are records tagged by type; a mapping is an ordered       *)
(* sequence of <<key, value>> pairs (dicts keep insertion order).  A line  *)
(* handed to the display transport is a record of its indentation, its     *)
(* tokens and the colour names it was displayed with.                      *)
(***************************************************************************)
EXTENDS Integers, Sequences, FiniteSets, TLC

VARIABLES
    show_unchanged_ok_tasks, \* self.show_unchanged_ok_tasks
    emitted_events,          \* self._emitted_events: set of dedup keys
    json_opened,             \* self._json_opened
    pending_event_line,      \* self._pending_event_line (NoPending models None)
    out,                     \* every line given to self._display.display, in order
    queued,                  \* history: every event handed to _emit_event, in order
    last,                    \* history: the latest hook invocation, its arguments
                             \* and the number of events it queued
    phase,                   \* "new" | "running" | "done": the runtime's position
    nCalls                   \* number of hook invocations so far

vars == <<show_unchanged_ok_tasks, emitted_events, json_opened,
          pending_event_line, out, queued, last, phase, nCalls>>

---------------------------------------------------------------------------
(* Bounds *)

MaxCalls == 3

\* the interpreter's limit on nested calls, scaled down
RecursionLimit == 8

---------------------------------------------------------------------------
(* Python values *)

PyNone == [t |-> "none"]
PyBool(b) == [t |-> "bool", v |-> b]
PyStr(s) == [t |-> "str", v |-> s]
PyInt(n) == [t |-> "int", v |-> n]
PyDict(items) == [t |-> "dict", items |-> items]
PyList(items) == [t |-> "list", items |-> items]

IsDict(v) == v.t = "dict"
IsList(v) == v.t = "list"

HasKey(d, k) == \E i \in 1..Len(d.items) : d.items[i][1] = k

\* dict.get(k, default)
DictGet(d, k, default) ==
    IF HasKey(d, k)
    THEN d.items[CHOOSE i \in 1..Len(d.items) : d.items[i][1] = k][2]
    ELSE default

\* Python truthiness, as used by `if x`, `bool(x)` and `x or y`
Truthy(v) ==
    CASE v.t = "none" -> FALSE
      [] v.t = "bool" -> v.v
      [] v.t = "str"  -> v.v # ""
      [] v.t = "int"  -> v.v # 0
      [] v.t = "dict" -> v.items # <<>>
      [] v.t = "list" -> v.items # <<>>

RECURSIVE Flatten(_)
Flatten(ss) == IF ss = <<>> THEN <<>> ELSE Head(ss) \o Flatten(Tail(ss))

---------------------------------------------------------------------------
(* _sanitize and json.dumps *)

\* _sanitize: primitives pass through, mappings and sequences are rebuilt
\* with every key coerced to text and every value sanitized
RECURSIVE Sanitize(_)
Sanitize(v) ==
    CASE v.t \in {"none", "bool", "int", "str"} -> v
      [] v.t = "dict" ->
            PyDict([i \in 1..Len(v.items) |->
                        <<v.items[i][1], Sanitize(v.items[i][2])>>])
      [] v.t = "list" ->
            PyList([i \in 1..Len(v.items) |-> Sanitize(v.items[i])])

Quote(s) == "\"" \o s \o "\""

\* the JSON text of a primitive
AtomTok(v) ==
    CASE v.t = "none" -> "null"
      [] v.t = "bool" -> IF v.v THEN "true" ELSE "false"
      [] v.t = "int"  -> ToString(v.v)
      [] v.t = "str"  -> Quote(v.v)

\* json.dumps(..., separators=(",", ":")): the tokens of the single line
RECURSIVE CompactToks(_)
CompactToks(v) ==
    CASE v.t = "dict" ->
            <<"{">> \o
            Flatten([i \in 1..Len(v.items) |->
                <<Quote(v.items[i][1]), ":">> \o CompactToks(v.items[i][2]) \o
                (IF i < Len(v.items) THEN <<",">> ELSE <<>>)]) \o
            <<"}">>
      [] v.t = "list" ->
            <<"[">> \o
            Flatten([i \in 1..Len(v.items) |->
                CompactToks(v.items[i]) \o
                (IF i < Len(v.items) THEN <<",">> ELSE <<>>)]) \o
            <<"]">>
      [] OTHER -> <<AtomTok(v)>>

\* the encoder's item separator: a comma after the last line of an item
ItemSep(lines, more) ==
    IF more
    THEN [lines EXCEPT ![Len(lines)].toks = Append(@, ",")]
    ELSE lines

\* a mapping's key in front of the first line of its value
WithKey(lines, k) == [lines EXCEPT ![1].toks = <<Quote(k), ": ">> \o @]

\* json.dumps(..., indent=2): the lines of the text, each with its indentation
RECURSIVE PrettyLines(_, _)
PrettyLines(v, ind) ==
    CASE v.t = "dict" /\ v.items # <<>> ->
            <<[ind |-> ind, toks |-> <<"{">>]>> \o
            Flatten([i \in 1..Len(v.items) |->
                ItemSep(WithKey(PrettyLines(v.items[i][2], ind + 2), v.items[i][1]),
                        i < Len(v.items))]) \o
            <<[ind |-> ind, toks |-> <<"}">>]>>
      [] v.t = "dict" /\ v.items = <<>> -> <<[ind |-> ind, toks |-> <<"{}">>]>>
      [] v.t = "list" /\ v.items # <<>> ->
            <<[ind |-> ind, toks |-> <<"[">>]>> \o
            Flatten([i \in 1..Len(v.items) |->
                ItemSep(PrettyLines(v.items[i], ind + 2), i < Len(v.items))]) \o
            <<[ind |-> ind, toks |-> <<"]">>]>>
      [] v.t = "list" /\ v.items = <<>> -> <<[ind |-> ind, toks |-> <<"[]">>]>>
      [] OTHER -> <<[ind |-> ind, toks |-> <<AtomTok(v)>>]>>

\* _to_output followed by splitlines(): the lines of the encoded payload
ToOutputLines(payload, compact) ==
    IF compact
    THEN <<[ind |-> 0, toks |-> CompactToks(Sanitize(payload))]>>
    ELSE PrettyLines(Sanitize(payload), 0)

---------------------------------------------------------------------------
(* The emitter.  Its state is passed around as a record `em` with the       *)
(* fields emitted_events, json_opened, pending, out and queued, so that a   *)
(* handler making several calls is one step.                                *)

NoPending == [none |-> TRUE, lines |-> <<>>, colors |-> <<>>]

\* self._display.display(msg[, color]): one line reaches the transport
Display(em, line, colors) ==
    [em EXCEPT !.out = Append(@, [ind |-> line.ind, toks |-> line.toks,
                                  colors |-> colors])]

\* _display_colored: the line is displayed once, styled by the first colour
\* name the colour table resolves (the names are kept, not the table)
DisplayColored(em, line, colors) == Display(em, line, colors)

RECURSIVE DisplayBlockColored(_, _, _)
DisplayBlockColored(em, lines, colors) ==
    IF lines = <<>> THEN em
    ELSE DisplayBlockColored(DisplayColored(em, Head(lines), colors),
                             Tail(lines), colors)

ScaffoldOpen == [ind |-> 0, toks |-> <<"{">>]
ScaffoldEvents == [ind |-> 2, toks |-> <<Quote("events"), ": ", "[">>]

\* a slip: the opened flag is not consulted
OpenJsonDocumentAlways(em) ==
    [Display(Display(em, ScaffoldOpen, <<>>), ScaffoldEvents, <<>>)
        EXCEPT !.json_opened = TRUE]

OpenJsonDocument(em) ==
    IF em.json_opened THEN em
    ELSE [Display(Display(em, ScaffoldOpen, <<>>), ScaffoldEvents, <<>>)
            EXCEPT !.json_opened = TRUE]

\* a slip: the separating comma is forgotten
AppendCommaToBlockNone(lines) == lines

AppendCommaToBlock(lines) ==
    IF lines = <<>> THEN lines
    ELSE [lines EXCEPT ![Len(lines)].toks = Append(@, ",")]

\* f"    {line}" for every line of the encoded payload
IndentBlock(lines) == [i \in 1..Len(lines) |-> [lines[i] EXCEPT !.ind = @ + 4]]

\* a slip: the new block is written at once and the older one stays pending
EmitEventNewFirst(em, payload, colors, tid) ==
    LET e1 == OpenJsonDocument(em)
        compact == DictGet(payload, "event", PyNone) = PyStr("task")
        lines == IndentBlock(ToOutputLines(payload, compact))
        e2 == IF e1.pending.none
              THEN [e1 EXCEPT !.pending = [none |-> FALSE, lines |-> lines,
                                           colors |-> colors]]
              ELSE DisplayBlockColored(e1, AppendCommaToBlock(lines), colors)
    IN [e2 EXCEPT !.queued = Append(@, [payload |-> payload, lines |-> lines,
                                        colors |-> colors, tid |-> tid])]

\* _emit_event; `tid` only labels the history entry
EmitEvent(em, payload, colors, tid) ==
    LET e1 == OpenJsonDocument(em)
        compact == DictGet(payload, "event", PyNone) = PyStr("task")
        lines == IndentBlock(ToOutputLines(payload, compact))
        e2 == IF e1.pending.none THEN e1
              ELSE DisplayBlockColored(e1, AppendCommaToBlock(e1.pending.lines),
                                       e1.pending.colors)
    IN [e2 EXCEPT !.pending = [none |-> FALSE, lines |-> lines, colors |-> colors],
                  !.queued = Append(@, [payload |-> payload, lines |-> lines,
                                        colors |-> colors, tid |-> tid])]

\* a slip: the pending block is written and stays pending
FlushPendingEventKeep(em) ==
    IF em.pending.none THEN em
    ELSE DisplayBlockColored(em, em.pending.lines, em.pending.colors)

FlushPendingEvent(em) ==
    IF em.pending.none THEN em
    ELSE [DisplayBlockColored(em, em.pending.lines, em.pending.colors)
            EXCEPT !.pending = NoPending]

---------------------------------------------------------------------------
(* The dedup keyer and the classifier.  A result is a record of its host    *)
(* name, its task (has_uuid, uuid, name, action, role) and its result data. *)

\* _task_role_name: the role's name, or None
TaskRoleName(task) == task.role

IsDebugTask(task) == task.action \in {"debug", "ansible.builtin.debug"}

\* result._result or {}
DataOf(result) == IF Truthy(result.result) THEN result.result ELSE PyDict(<<>>)

\* a slip: the nested results are not looked at
IsChangedTopOnly(data) == Truthy(DictGet(data, "changed", PyBool(FALSE)))

\* a slip: only the nested results are looked at
IsChangedNestedOnly(data) ==
    LET results == DictGet(data, "results", PyNone)
    IN /\ IsList(results)
       /\ \E i \in 1..Len(results.items) :
             /\ IsDict(results.items[i])
             /\ Truthy(DictGet(results.items[i], "changed", PyBool(FALSE)))

IsChanged(data) ==
    \/ Truthy(DictGet(data, "changed", PyBool(FALSE)))
    \/ LET results == DictGet(data, "results", PyNone)
       IN /\ IsList(results)
          /\ \E i \in 1..Len(results.items) :
                /\ IsDict(results.items[i])
                /\ Truthy(DictGet(results.items[i], "changed", PyBool(FALSE)))

IsItemResult(data) == Truthy(DictGet(data, "_ansible_item_result", PyBool(FALSE)))

\* a slip: the display name is the identity even when the task has an identifier
TaskIdentityNameOnly(task) == task.name

\* getattr(result._task, "_uuid", result._task.get_name()), as text
TaskIdentity(task) == IF task.has_uuid THEN task.uuid ELSE task.name

\* a slip: the host is left out of the key
EventKeyNoHost(event_name, result) ==
    <<event_name, "", TaskIdentity(result.task)>>

\* a slip: the kind is left out of the key
EventKeyNoKind(event_name, result) ==
    <<"", result.host, TaskIdentity(result.task)>>

EventKey(event_name, result) ==
    <<event_name, result.host, TaskIdentity(result.task)>>

\* a slip: the key is never recorded
ShouldEmitEventNoRecord(em, event_name, result) ==
    [emit |-> EventKey(event_name, result) \notin em.emitted_events, em |-> em]

\* a slip: the key is recorded and the answer is always yes
ShouldEmitEventAlways(em, event_name, result) ==
    [emit |-> TRUE,
     em |-> [em EXCEPT !.emitted_events = @ \cup {EventKey(event_name, result)}]]

\* _should_emit_event: the answer, and the emitter state with the key recorded
ShouldEmitEvent(em, event_name, result) ==
    LET key == EventKey(event_name, result)
    IN IF key \in em.emitted_events
       THEN [emit |-> FALSE, em |-> em]
       ELSE [emit |-> TRUE, em |-> [em EXCEPT !.emitted_events = @ \cup {key}]]

TaskPayload(host, task, event_name, data) ==
    PyDict(<< <<"host", PyStr(host)>>,
              <<"role", TaskRoleName(task)>>,
              <<"task", PyStr(task.name)>>,
              <<"event", PyStr(event_name)>>,
              <<"result", data>> >>)

\* a slip: the result of a single item is not reported
EmitResultEventSkipItems(em, event_name, result, colors) ==
    LET s == ShouldEmitEvent(em, event_name, result)
    IN IF IsItemResult(DataOf(result)) THEN em
       ELSE IF ~s.emit THEN s.em
       ELSE EmitEvent(s.em,
                      TaskPayload(result.host, result.task, event_name, result.result),
                      colors, TaskIdentity(result.task))

EmitResultEvent(em, event_name, result, colors) ==
    LET s == ShouldEmitEvent(em, event_name, result)
    IN IF ~s.emit THEN s.em
       ELSE EmitEvent(s.em,
                      TaskPayload(result.host, result.task, event_name, result.result),
                      colors, TaskIdentity(result.task))

DebugTaskPayload(result) ==
    PyDict(<< <<"event", PyStr("task")>>,
              <<"host", PyStr(result.host)>>,
              <<"role", TaskRoleName(result.task)>>,
              <<"task", PyStr(result.task.name)>>,
              <<"action", PyStr(result.task.action)>> >>)

\* a slip: the message is always the whole result data
DebugPayloadWholeData(result) ==
    PyDict(<< <<"event", PyStr("debug")>>,
              <<"host", PyStr(result.host)>>,
              <<"role", TaskRoleName(result.task)>>,
              <<"task", PyStr(result.task.name)>>,
              <<"msg", DataOf(result)>> >>)

DebugPayload(result) ==
    PyDict(<< <<"event", PyStr("debug")>>,
              <<"host", PyStr(result.host)>>,
              <<"role", TaskRoleName(result.task)>>,
              <<"task", PyStr(result.task.name)>>,
              <<"msg", DictGet(DataOf(result), "msg", DataOf(result))>> >>)

ChangedPayload(result) ==
    PyDict(<< <<"event", PyStr("changed")>>,
              <<"host", PyStr(result.host)>>,
              <<"role", TaskRoleName(result.task)>>,
              <<"task", PyStr(result.task.name)>> >>)

OkPayload(result) ==
    PyDict(<< <<"event", PyStr("ok")>>,
              <<"host", PyStr(result.host)>>,
              <<"role", TaskRoleName(result.task)>>,
              <<"task", PyStr(result.task.name)>>,
              <<"changed", PyBool(FALSE)>> >>)

\* a slip: the changed test comes before the debug test
HandleOkResultChangedFirst(em, flag, result) ==
    LET tid == TaskIdentity(result.task)
    IN IF IsChanged(DataOf(result))
       THEN LET s == ShouldEmitEvent(em, "changed", result)
            IN IF ~s.emit THEN s.em
               ELSE EmitEvent(s.em, ChangedPayload(result), <<"COLOR_CHANGED">>, tid)
       ELSE IF IsDebugTask(result.task)
       THEN LET s == ShouldEmitEvent(em, "debug", result)
            IN IF ~s.emit THEN s.em
               ELSE EmitEvent(
                        EmitEvent(s.em, DebugTaskPayload(result),
                                  <<"COLOR_TASK", "COLOR_VERBOSE">>, tid),
                        DebugPayload(result),
                        <<"COLOR_OK", "COLOR_DEBUG", "COLOR_VERBOSE">>, tid)
       ELSE IF flag
       THEN LET s == ShouldEmitEvent(em, "ok", result)
            IN IF ~s.emit THEN s.em
               ELSE EmitEvent(s.em, OkPayload(result),
                              <<"COLOR_OK", "COLOR_VERBOSE">>, tid)
       ELSE em

\* _handle_ok_result
HandleOkResult(em, flag, result) ==
    LET tid == TaskIdentity(result.task)
    IN IF IsDebugTask(result.task)
       THEN LET s == ShouldEmitEvent(em, "debug", result)
            IN IF ~s.emit THEN s.em
               ELSE EmitEvent(
                        EmitEvent(s.em, DebugTaskPayload(result),
                                  <<"COLOR_TASK", "COLOR_VERBOSE">>, tid),
                        DebugPayload(result),
                        <<"COLOR_OK", "COLOR_DEBUG", "COLOR_VERBOSE">>, tid)
       ELSE IF IsChanged(DataOf(result))
       THEN LET s == ShouldEmitEvent(em, "changed", result)
            IN IF ~s.emit THEN s.em
               ELSE EmitEvent(s.em, ChangedPayload(result), <<"COLOR_CHANGED">>, tid)
       ELSE IF flag
       THEN LET s == ShouldEmitEvent(em, "ok", result)
            IN IF ~s.emit THEN s.em
               ELSE EmitEvent(s.em, OkPayload(result),
                              <<"COLOR_OK", "COLOR_VERBOSE">>, tid)
       ELSE em

---------------------------------------------------------------------------
(* Option resolution.  Option and environment texts are sequences of        *)
(* characters, so that strip() and lower() are computed.                     *)

PyText(cs) == [t |-> "text", cs |-> cs]

TRUE_VALUES == { <<"1">>, <<"t", "r", "u", "e">>, <<"y", "e", "s">>,
                 <<"o", "n">>, <<"y">> }
FALSE_VALUES == { <<"0">>, <<"f", "a", "l", "s", "e">>, <<"n", "o">>,
                  <<"o", "f", "f">>, <<"n">> }

Whitespace == {" ", "\t", "\n"}

RECURSIVE LStrip(_)
LStrip(cs) ==
    IF cs # <<>> /\ Head(cs) \in Whitespace THEN LStrip(Tail(cs)) ELSE cs

RECURSIVE RStrip(_)
RStrip(cs) ==
    IF cs # <<>> /\ cs[Len(cs)] \in Whitespace
    THEN RStrip(SubSeq(cs, 1, Len(cs) - 1)) ELSE cs

Strip(cs) == RStrip(LStrip(cs))

UpperToLower ==
    [c \in {"A", "E", "F", "L", "N", "O", "R", "S", "T", "U", "Y"} |->
        CASE c = "A" -> "a" [] c = "E" -> "e" [] c = "F" -> "f" [] c = "L" -> "l"
          [] c = "N" -> "n" [] c = "O" -> "o" [] c = "R" -> "r" [] c = "S" -> "s"
          [] c = "T" -> "t" [] c = "U" -> "u" [] c = "Y" -> "y"]

Lower(cs) ==
    [i \in 1..Len(cs) |->
        IF cs[i] \in DOMAIN UpperToLower THEN UpperToLower[cs[i]] ELSE cs[i]]

\* str(value) of a value that is neither None nor a bool
StrOf(value) ==
    CASE value.t = "text" -> value.cs
      [] value.t = "int"  -> <<ToString(value.v)>>

\* _to_bool
ToBool(value, default) ==
    IF value.t = "none" THEN default
    ELSE IF value.t = "bool" THEN value.v
    ELSE LET text == Lower(Strip(StrOf(value)))
         IN IF text \in TRUE_VALUES THEN TRUE
            ELSE IF text \in FALSE_VALUES THEN FALSE
            ELSE default

\* a slip: the legacy alias is never read
OptionValueNoLegacy(opt, env) ==
    LET option_value == IF opt.raises THEN PyNone ELSE opt.value
    IN IF option_value # PyNone THEN option_value ELSE env.primary

\* the value set_options hands to _to_bool: get_option's answer (None when it
\* raises), and only when that is None the first environment variable set
OptionValue(opt, env) ==
    LET option_value == IF opt.raises THEN PyNone ELSE opt.value
    IN IF option_value # PyNone THEN option_value
       ELSE IF env.primary # PyNone THEN env.primary
       ELSE env.legacy

ResolveShowUnchanged(opt, env) == ToBool(OptionValue(opt, env), FALSE)

---------------------------------------------------------------------------
(* The recap.  stats is a record of the hosts it processed and, per host,   *)
(* what summarize(host) returns.                                             *)

\* code points of the host names, to order them as sorted() orders text
NameCodes ==
    [h \in {"h1", "h10", "h2"} |->
        CASE h = "h1" -> <<104, 49>>
          [] h = "h10" -> <<104, 49, 48>>
          [] h = "h2" -> <<104, 50>>]

RECURSIVE CodesLess(_, _)
CodesLess(a, b) ==
    IF b = <<>> THEN FALSE
    ELSE IF a = <<>> THEN TRUE
    ELSE IF Head(a) # Head(b) THEN Head(a) < Head(b)
    ELSE CodesLess(Tail(a), Tail(b))

NameLeq(x, y) == x = y \/ CodesLess(NameCodes[x], NameCodes[y])

\* sorted(stats.processed.keys())
RECURSIVE SortedHosts(_)
SortedHosts(S) ==
    IF S = {} THEN <<>>
    ELSE LET m == CHOOSE x \in S : \A y \in S : NameLeq(x, y)
         IN <<m>> \o SortedHosts(S \ {m})

\* s.get(key, 0)
StatGet(s, key) == IF key \in DOMAIN s THEN s[key] ELSE 0

\* a slip: the failure counter is read under the recap's own name
RecapSummaryFailedKey(s) ==
    PyDict(<< <<"ok", PyInt(StatGet(s, "ok"))>>,
              <<"changed", PyInt(StatGet(s, "changed"))>>,
              <<"unreachable", PyInt(StatGet(s, "unreachable"))>>,
              <<"failed", PyInt(StatGet(s, "failed"))>>,
              <<"skipped", PyInt(StatGet(s, "skipped"))>>,
              <<"rescued", PyInt(StatGet(s, "rescued"))>>,
              <<"ignored", PyInt(StatGet(s, "ignored"))>> >>)

RecapSummary(s) ==
    PyDict(<< <<"ok", PyInt(StatGet(s, "ok"))>>,
              <<"changed", PyInt(StatGet(s, "changed"))>>,
              <<"unreachable", PyInt(StatGet(s, "unreachable"))>>,
              <<"failed", PyInt(StatGet(s, "failures"))>>,
              <<"skipped", PyInt(StatGet(s, "skipped"))>>,
              <<"rescued", PyInt(StatGet(s, "rescued"))>>,
              <<"ignored", PyInt(StatGet(s, "ignored"))>> >>)

\* a slip: the failure counter is looked at before the unreachable counter
RecapColorNamesFailedFirst(summary) ==
    IF DictGet(summary, "failed", PyInt(0)).v > 0
    THEN <<"COLOR_ERROR">>
    ELSE IF DictGet(summary, "unreachable", PyInt(0)).v > 0
    THEN <<"COLOR_UNREACHABLE", "COLOR_ERROR">>
    ELSE IF DictGet(summary, "changed", PyInt(0)).v > 0
    THEN <<"COLOR_CHANGED", "COLOR_WARN">>
    ELSE <<"COLOR_OK", "COLOR_VERBOSE">>

RecapColorNames(summary) ==
    IF DictGet(summary, "unreachable", PyInt(0)).v > 0
    THEN <<"COLOR_UNREACHABLE", "COLOR_ERROR">>
    ELSE IF DictGet(summary, "failed", PyInt(0)).v > 0
    THEN <<"COLOR_ERROR">>
    ELSE IF DictGet(summary, "changed", PyInt(0)).v > 0
    THEN <<"COLOR_CHANGED", "COLOR_WARN">>
    ELSE <<"COLOR_OK", "COLOR_VERBOSE">>

\* the line written for hosts[index] (index from 1)
RecapLine(hosts, index, summary) ==
    [ind |-> 4,
     toks |-> <<Quote(hosts[index]), ": ">> \o CompactToks(Sanitize(summary)) \o
              (IF index < Len(hosts) THEN <<",">> ELSE <<>>)]

RECURSIVE RecapLoop(_, _, _, _)
RecapLoop(em, stats, hosts, index) ==
    IF index > Len(hosts) THEN em
    ELSE LET summary == RecapSummary(stats.summary[hosts[index]])
         IN RecapLoop(DisplayColored(em, RecapLine(hosts, index, summary),
                                     RecapColorNames(summary)),
                      stats, hosts, index + 1)

EventsClose == [ind |-> 2, toks |-> <<"]", ",">>]
RecapOpen == [ind |-> 2, toks |-> <<Quote("play_recap"), ": ", "{">>]
RecapClose == [ind |-> 2, toks |-> <<"}">>]
DocumentClose == [ind |-> 0, toks |-> <<"}">>]

\* a slip: the statistics hook does not open the document
PlaybookOnStatsNoOpen(em, stats) ==
    LET e1 == FlushPendingEvent(em)
        e2 == Display(e1, EventsClose, <<>>)
        e3 == DisplayColored(e2, RecapOpen, <<"COLOR_TASK", "COLOR_VERBOSE">>)
        e4 == RecapLoop(e3, stats, SortedHosts(stats.processed), 1)
        e5 == DisplayColored(e4, RecapClose, <<"COLOR_TASK", "COLOR_VERBOSE">>)
    IN Display(e5, DocumentClose, <<>>)

\* v2_playbook_on_stats, on the emitter state
PlaybookOnStats(em, stats) ==
    LET e1 == FlushPendingEvent(OpenJsonDocument(em))
        e2 == Display(e1, EventsClose, <<>>)
        e3 == DisplayColored(e2, RecapOpen, <<"COLOR_TASK", "COLOR_VERBOSE">>)
        e4 == RecapLoop(e3, stats, SortedHosts(stats.processed), 1)
        e5 == DisplayColored(e4, RecapClose, <<"COLOR_TASK", "COLOR_VERBOSE">>)
    IN Display(e5, DocumentClose, <<>>)

---------------------------------------------------------------------------
(* Inputs *)

DebugTask == [has_uuid |-> TRUE, uuid |-> "u1", name |-> "say",
              action |-> "debug", role |-> PyStr("web")]
CopyTask == [has_uuid |-> TRUE, uuid |-> "u2", name |-> "copy",
             action |-> "copy", role |-> PyNone]

DataMsg == PyDict(<< <<"msg", PyStr("hello")>>, <<"changed", PyBool(FALSE)>> >>)
DataChanged == PyDict(<< <<"changed", PyBool(TRUE)>> >>)
DataUnchanged == PyDict(<< <<"changed", PyBool(FALSE)>> >>)
DataItemChanged == PyDict(<< <<"changed", PyBool(TRUE)>>,
                             <<"_ansible_item_result", PyBool(TRUE)>> >>)
DataItemUnchanged == PyDict(<< <<"changed", PyBool(FALSE)>>,
                               <<"_ansible_item_result", PyBool(TRUE)>> >>)
\* the whole-task result of a loop: no top-level changed, one item changed
DataLoop == PyDict(<< <<"results", PyList(<< DataItemUnchanged, DataItemChanged >>)>> >>)
DataFailed == PyDict(<< <<"msg", PyStr("boom")>>, <<"failed", PyBool(TRUE)>> >>)
DataItemFailed == PyDict(<< <<"msg", PyStr("boom")>>, <<"failed", PyBool(TRUE)>>,
                            <<"_ansible_item_result", PyBool(TRUE)>> >>)
DataUnreachable == PyDict(<< <<"unreachable", PyBool(TRUE)>> >>)

EventHosts == {"h1", "h2"}

MkResult(h, task, data) == [host |-> h, task |-> task, result |-> data]

OkResults ==
    { MkResult(h, DebugTask, d) : h \in EventHosts, d \in {DataMsg, DataChanged} }
    \cup
    { MkResult(h, CopyTask, d) : h \in EventHosts,
        d \in {DataChanged, DataUnchanged, DataLoop, DataItemChanged,
               DataItemUnchanged} }

\* the per-item hook is given the results of single items
ItemOkResults ==
    { MkResult(h, DebugTask, DataMsg) : h \in EventHosts }
    \cup
    { MkResult(h, CopyTask, d) : h \in EventHosts,
        d \in {DataItemChanged, DataItemUnchanged} }

\* the failure of a whole task, and the failure of one item of a loop
FailedResults ==
    { MkResult(h, DebugTask, DataFailed) : h \in EventHosts }
    \cup { MkResult(h, CopyTask, DataItemFailed) : h \in EventHosts }

UnreachableResults ==
    { MkResult(h, t, DataUnreachable) : h \in EventHosts, t \in {DebugTask, CopyTask} }

NoStats == [processed |-> {}, summary |-> <<>>]

Summary(ok, changed, unreachable, failures) ==
    [ok |-> ok, changed |-> changed, unreachable |-> unreachable,
     failures |-> failures, skipped |-> 0, rescued |-> 0, ignored |-> 0]

SummaryChoices ==
    { Summary(2, 0, 0, 0), Summary(2, 1, 0, 0), Summary(1, 1, 0, 1),
      Summary(0, 0, 1, 1) }

\* every statistics object over the three host names
AllStats ==
    UNION { { [processed |-> S, summary |-> f] : f \in [S -> SummaryChoices] } :
            S \in SUBSET DOMAIN NameCodes }

MainStats ==
    { [processed |-> {"h1", "h2"},
       summary |-> [h \in {"h1", "h2"} |->
                      IF h = "h1" THEN Summary(2, 1, 0, 0) ELSE Summary(0, 0, 1, 1)]] }

NoOpt == [raises |-> FALSE, value |-> PyNone]
NoEnv == [primary |-> PyNone, legacy |-> PyNone]

OptValues ==
    { PyNone, PyBool(TRUE), PyBool(FALSE), PyInt(1),
      PyText(<<"t", "r", "u", "e">>), PyText(<<"N", "o">>),
      PyText(<<"m", "a", "y", "b", "e">>) }

EnvValues ==
    { PyNone, PyText(<<"1">>), PyText(<<" ", "Y", "E", "S", "\n">>),
      PyText(<<"o", "f", "f">>), PyText(<<"j", "u", "n", "k">>), PyText(<<>>) }

AllOpts == { [raises |-> r, value |-> v] : r \in BOOLEAN, v \in OptValues }
AllEnvs == { [primary |-> p, legacy |-> l] : p \in EnvValues, l \in EnvValues }

MainOptions ==
    { <<NoOpt, NoEnv>>,
      <<[raises |-> FALSE, value |-> PyBool(TRUE)], NoEnv>> }

---------------------------------------------------------------------------
(* State *)

Em == [emitted_events |-> emitted_events, json_opened |-> json_opened,
       pending |-> pending_event_line, out |-> out, queued |-> queued]

SetEm(e) ==
    /\ emitted_events' = e.emitted_events
    /\ json_opened' = e.json_opened
    /\ pending_event_line' = e.pending
    /\ out' = e.out
    /\ queued' = e.queued

NoResult == MkResult("", CopyTask, PyNone)

Call(hook) == [hook |-> hook, result |-> NoResult, ignore_errors |-> FALSE,
               stats |-> NoStats, opt |-> NoOpt, env |-> NoEnv, added |-> 0]

\* __init__
Init ==
    /\ show_unchanged_ok_tasks = FALSE
    /\ emitted_events = {}
    /\ json_opened = FALSE
    /\ pending_event_line = NoPending
    /\ out = <<>>
    /\ queued = <<>>
    /\ last = Call("init")
    /\ phase = "new"
    /\ nCalls = 0

Running == phase = "running" /\ nCalls < MaxCalls

\* set_options: the plugin loader calls it once, before any hook
SetOptions(opt, env) ==
    /\ phase = "new"
    /\ show_unchanged_ok_tasks' = ResolveShowUnchanged(opt, env)
    /\ phase' = "running"
    /\ last' = [Call("set_options") EXCEPT !.opt = opt, !.env = env]
    /\ UNCHANGED <<emitted_events, json_opened, pending_event_line, out, queued,
                   nCalls>>

RunnerOnOk(result) ==
    /\ Running
    /\ SetEm(IF IsItemResult(DataOf(result)) THEN Em
             ELSE HandleOkResult(Em, show_unchanged_ok_tasks, result))
    /\ last' = [Call("ok") EXCEPT !.result = result,
                                  !.added = Len(queued') - Len(queued)]
    /\ nCalls' = nCalls + 1
    /\ UNCHANGED <<show_unchanged_ok_tasks, phase>>

RunnerItemOnOk(result) ==
    /\ Running
    /\ SetEm(HandleOkResult(Em, show_unchanged_ok_tasks, result))
    /\ last' = [Call("item_ok") EXCEPT !.result = result,
                                       !.added = Len(queued') - Len(queued)]
    /\ nCalls' = nCalls + 1
    /\ UNCHANGED <<show_unchanged_ok_tasks, phase>>

PlaybookOnStart ==
    /\ Running
    /\ SetEm(OpenJsonDocument(Em))
    /\ last' = Call("start")
    /\ nCalls' = nCalls + 1
    /\ UNCHANGED <<show_unchanged_ok_tasks, phase>>

\* a slip: the task-start hook opens the document
PlaybookOnTaskStartOpens ==
    /\ Running
    /\ SetEm(OpenJsonDocument(Em))
    /\ last' = Call("task_start")
    /\ nCalls' = nCalls + 1
    /\ UNCHANGED <<show_unchanged_ok_tasks, phase>>

PlaybookOnTaskStart ==
    /\ Running
    /\ last' = Call("task_start")
    /\ nCalls' = nCalls + 1
    /\ UNCHANGED <<show_unchanged_ok_tasks, emitted_events, json_opened,
                   pending_event_line, out, queued, phase>>

RunnerOnFailed(result, ignore_errors) ==
    /\ Running
    /\ SetEm(EmitResultEvent(Em, "failed", result, <<"COLOR_ERROR">>))
    /\ last' = [Call("failed") EXCEPT !.result = result,
                                      !.ignore_errors = ignore_errors,
                                      !.added = Len(queued') - Len(queued)]
    /\ nCalls' = nCalls + 1
    /\ UNCHANGED <<show_unchanged_ok_tasks, phase>>

RunnerOnUnreachable(result) ==
    /\ Running
    /\ SetEm(EmitResultEvent(Em, "unreachable", result,
                             <<"COLOR_UNREACHABLE", "COLOR_ERROR">>))
    /\ last' = [Call("unreachable") EXCEPT !.result = result,
                                           !.added = Len(queued') - Len(queued)]
    /\ nCalls' = nCalls + 1
    /\ UNCHANGED <<show_unchanged_ok_tasks, phase>>

\* the end-of-run statistics hook: the runtime's last call
OnStats(stats) ==
    /\ phase = "running"
    /\ SetEm(PlaybookOnStats(Em, stats))
    /\ last' = [Call("stats") EXCEPT !.stats = stats]
    /\ phase' = "done"
    /\ UNCHANGED <<show_unchanged_ok_tasks, nCalls>>

Next ==
    \/ \E o \in MainOptions : SetOptions(o[1], o[2])
    \/ \E r \in OkResults : RunnerOnOk(r)
    \/ \E r \in ItemOkResults : RunnerItemOnOk(r)
    \/ PlaybookOnStart
    \/ PlaybookOnTaskStart
    \/ \E r \in FailedResults, ie \in BOOLEAN : RunnerOnFailed(r, ie)
    \/ \E r \in UnreachableResults : RunnerOnUnreachable(r)
    \/ \E s \in MainStats : OnStats(s)

Spec == Init /\ [][Next]_vars

\* set_options alone, over every option and environment source
NextOpt == \E opt \in AllOpts, env \in AllEnvs : SetOptions(opt, env)

SpecOpt == Init /\ [][NextOpt]_vars

\* a short run ended by the statistics hook, over every statistics object
NextRecap ==
    \/ SetOptions(NoOpt, NoEnv)
    \/ \E h \in EventHosts : RunnerOnOk(MkResult(h, CopyTask, DataChanged))
    \/ \E s \in AllStats : OnStats(s)

SpecRecap == Init /\ [][NextRecap]_vars

---------------------------------------------------------------------------
(* Reading the transcript back *)

StripComma(line) ==
    IF line.toks # <<>> /\ line.toks[Len(line.toks)] = ","
    THEN [line EXCEPT !.toks = SubSeq(@, 1, Len(@) - 1)]
    ELSE line

EndsWithComma(line) == line.toks # <<>> /\ line.toks[Len(line.toks)] = ","

\* the index after the last line of the events array of transcript o: event
\* lines are indented by four or more, the lines around them by less
EventsEndOf(o) ==
    IF \E i \in 3..Len(o) : o[i].ind < 4
    THEN CHOOSE i \in 3..Len(o) :
            o[i].ind < 4 /\ \A j \in 3..(i - 1) : o[j].ind >= 4
    ELSE Len(o) + 1

EventLinesOf(o) == SubSeq(o, 3, EventsEndOf(o) - 1)

\* the last line of an event block closes the payload's mapping at depth four
IsBlockEnd(line) ==
    /\ line.ind = 4
    /\ LET t == StripComma(line).toks IN t # <<>> /\ t[Len(t)] = "}"

BlockEndsOf(lines) == { i \in 1..Len(lines) : IsBlockEnd(lines[i]) }

\* an event line without the array's separating comma
Unseparated(line) == IF IsBlockEnd(line) THEN StripComma(line) ELSE line

\* the block of a queued event as the transport shows it
QueuedBlock(q) ==
    [i \in 1..Len(q.lines) |->
        [ind |-> q.lines[i].ind, toks |-> q.lines[i].toks, colors |-> q.colors]]

EventKind(q) == DictGet(q.payload, "event", PyNone).v
EventHost(q) == DictGet(q.payload, "host", PyNone).v

\* the queued events of one kind for one host and task identity
EventsFor(kind, host, tid) ==
    { i \in 1..Len(queued) :
        EventKind(queued[i]) = kind /\ EventHost(queued[i]) = host
        /\ queued[i].tid = tid }

ResultHooks == {"ok", "item_ok", "failed", "unreachable"}

---------------------------------------------------------------------------
(* Claims *)

\* C1: the event blocks written to the transport are, in order, the blocks
\* queued through _emit_event: at every moment the written blocks are the
\* first blocks queued, none is written before one queued earlier, and once
\* the statistics hook has run all of them are written.
C1_WrittenInQueuedOrder ==
    LET lines == EventLinesOf(out)
        written == Cardinality(BlockEndsOf(lines))
    IN /\ written <= Len(queued)
       /\ [i \in 1..Len(lines) |-> Unseparated(lines[i])]
            = Flatten([k \in 1..written |-> QueuedBlock(queued[k])])
       /\ phase = "done" => written = Len(queued)

C1_Witness ==
    /\ phase = "done"
    /\ Len(queued) >= 3
    /\ \E i, j \in 1..Len(queued) : queued[i].lines # queued[j].lines

\* C2: after the statistics hook the events array is well formed: every
\* block written except the last ends with a separating comma, the last one
\* ends without, and the array-closing line follows it; with no event the
\* array is opened and closed with nothing in between.  Before the end,
\* every block written is followed by another and ends with a comma.
C2_ArrayWellFormed ==
    LET lines == EventLinesOf(out)
        ends == BlockEndsOf(lines)
        close == Len(lines) + 3
    IN /\ \A i \in ends :
             EndsWithComma(lines[i]) <=> (phase # "done" \/ \E j \in ends : j > i)
       /\ phase = "done" =>
             /\ close <= Len(out)
             /\ [ind |-> out[close].ind, toks |-> out[close].toks] = EventsClose
             /\ lines # <<>> => Len(lines) \in ends
             /\ queued = <<>> => lines = <<>>
             /\ [ind |-> out[2].ind, toks |-> out[2].toks] = ScaffoldEvents

C2_Witness ==
    LET lines == EventLinesOf(out)
        ends == BlockEndsOf(lines)
    IN /\ phase = "done"
       /\ Cardinality(ends) >= 2
       /\ \E i \in ends : ~EndsWithComma(lines[i])
       /\ \E i \in ends : EndsWithComma(lines[i])

\* C3: a dedup key (event kind, host name, task identity) is emitted at most
\* once: no two queued events share kind, host and task identity, the keys
\* of the queued events are recorded, and no more blocks are written than
\* events queued, so a second result with the same key adds nothing.
C3_KeyEmittedAtMostOnce ==
    /\ \A i, j \in 1..Len(queued) :
          ( /\ EventKind(queued[i]) = EventKind(queued[j])
            /\ EventHost(queued[i]) = EventHost(queued[j])
            /\ queued[i].tid = queued[j].tid ) => i = j
    /\ Cardinality(BlockEndsOf(EventLinesOf(out))) <= Len(queued)

\* a second result with an already emitted key has just been handled
C3_Witness ==
    /\ nCalls = 2
    /\ last.hook = "item_ok"
    /\ ~IsDebugTask(last.result.task)
    /\ Len(queued) = 1
    /\ EventsFor("changed", last.result.host, TaskIdentity(last.result.task)) = {1}
    /\ Truthy(DictGet(DataOf(last.result), "changed", PyBool(FALSE)))

\* the kind the latest hook invocation classifies its result to ("none" when
\* it classifies to no event)
LastKind ==
    LET r == last.result
        data == IF Truthy(r.result) THEN r.result ELSE PyDict(<<>>)
        nested == DictGet(data, "results", PyNone)
        changed ==
            \/ Truthy(DictGet(data, "changed", PyBool(FALSE)))
            \/ /\ nested.t = "list"
               /\ \E i \in 1..Len(nested.items) :
                     /\ nested.items[i].t = "dict"
                     /\ Truthy(DictGet(nested.items[i], "changed", PyBool(FALSE)))
        okKind ==
            IF r.task.action \in {"debug", "ansible.builtin.debug"} THEN "debug"
            ELSE IF changed THEN "changed"
            ELSE IF show_unchanged_ok_tasks THEN "ok"
            ELSE "none"
    IN CASE last.hook = "ok" ->
              IF Truthy(DictGet(data, "_ansible_item_result", PyBool(FALSE)))
              THEN "none" ELSE okKind
         [] last.hook = "item_ok" -> okKind
         [] last.hook = "failed" -> "failed"
         [] last.hook = "unreachable" -> "unreachable"
         [] OTHER -> "none"

\* C4: dedup is no coarser than the key: once a hook has handled a result
\* that classifies to an emitted kind, an event of that kind for that host
\* and that task identity is among the queued events, whatever was emitted
\* before for other hosts or other kinds of the same task.
C4_OtherHostOrKindNotSuppressed ==
    LastKind # "none" =>
        EventsFor(LastKind, last.result.host, TaskIdentity(last.result.task)) # {}

\* the same task reported as changed on two hosts, and as changed and failed
\* on one host
C4_Witness ==
    /\ \E i, j \in 1..Len(queued) :
          /\ EventKind(queued[i]) = "changed" /\ EventKind(queued[j]) = "changed"
          /\ queued[i].tid = queued[j].tid
          /\ EventHost(queued[i]) # EventHost(queued[j])
    /\ \E i, j \in 1..Len(queued) :
          /\ EventKind(queued[i]) = "changed" /\ EventKind(queued[j]) = "failed"
          /\ queued[i].tid = queued[j].tid
          /\ EventHost(queued[i]) = EventHost(queued[j])

\* the latest hook invocation handed its result to _handle_ok_result, and the
\* task is not the debug action
LastClassifiedNonDebug ==
    /\ last.hook \in {"ok", "item_ok"}
    /\ last.result.task.action \notin {"debug", "ansible.builtin.debug"}
    /\ last.hook = "ok" =>
          ~Truthy(DictGet(last.result.result, "_ansible_item_result", PyBool(FALSE)))

\* some item of the nested results list of data reports changed
NestedChanged(data) ==
    /\ HasKey(data, "results")
    /\ LET nested == DictGet(data, "results", PyNone)
       IN /\ nested.t = "list"
          /\ \E i \in 1..Len(nested.items) :
                /\ nested.items[i].t = "dict"
                /\ Truthy(DictGet(nested.items[i], "changed", PyBool(FALSE)))

LastWholeLoop ==
    /\ last.hook = "ok"
    /\ LastClassifiedNonDebug
    /\ ~HasKey(last.result.result, "changed")
    /\ NestedChanged(last.result.result)

ChangedCount(h, tid) == Cardinality(EventsFor("changed", h, tid))

TaskIds == {"u1", "u2", "say", "copy"}

\* C6: for a looped non-debug task on one host whose whole-task result has
\* no top-level changed flag and a nested item with changed=true: once the
\* whole-task ok hook has handled it there is exactly one `changed` event for
\* that host and task, whether or not per-item hooks came first, and no later
\* hook changes that number.
C6_LoopYieldsOneChanged ==
    /\ [](LastWholeLoop =>
            ChangedCount(last.result.host, TaskIdentity(last.result.task)) = 1)
    /\ [][\A h \in EventHosts, tid \in TaskIds :
            ChangedCount(h, tid) = 1 => ChangedCount(h, tid)' = 1]_vars

\* the whole-task hook came after the hook of a changed item, which had
\* queued the event
C6_Witness ==
    /\ LastWholeLoop
    /\ last.added = 0
    /\ ChangedCount(last.result.host, TaskIdentity(last.result.task)) = 1

\* the latest invocation handed a debug-action result to the classifier
LastClassifiedDebug ==
    /\ last.hook \in {"ok", "item_ok"}
    /\ last.result.task.action \in {"debug", "ansible.builtin.debug"}
    /\ last.hook = "ok" =>
          ~Truthy(DictGet(last.result.result, "_ansible_item_result", PyBool(FALSE)))

\* C7: for a successful debug-action result not reported before for its host
\* and task, the call queues a `task` event immediately followed by a `debug`
\* event, both for that host and task, and the debug event's msg is the
\* result's msg field when it has one and the whole result data otherwise.
C7_DebugPair ==
    LET r == last.result
        tid == TaskIdentity(r.task)
        n == Len(queued)
        before == n - last.added
    IN ( /\ LastClassifiedDebug
         /\ \A i \in EventsFor("debug", r.host, tid) : i > before ) =>
            /\ last.added = 2
            /\ EventsFor("task", r.host, tid) = {n - 1}
            /\ EventsFor("debug", r.host, tid) = {n}
            /\ DictGet(queued[n - 1].payload, "action", PyNone) = PyStr(r.task.action)
            /\ DictGet(queued[n].payload, "msg", PyNone) =
                  (IF HasKey(r.result, "msg")
                   THEN DictGet(r.result, "msg", PyNone) ELSE r.result)

\* a debug result with a msg field, reported after another event
C7_Witness ==
    /\ LastClassifiedDebug
    /\ last.added = 2
    /\ Len(queued) >= 3
    /\ HasKey(last.result.result, "msg")

LineIs(i, line) == out[i].ind = line.ind /\ out[i].toks = line.toks

\* C8: the opening scaffold is written exactly once however often
\* _open_json_document is invoked: its two lines are the first two lines of
\* the transcript and occur nowhere else, nothing is written before it, and
\* invoking it on an open document changes nothing.
C8_OpenIdempotent ==
    /\ ~json_opened => out = <<>>
    /\ json_opened =>
          /\ Len(out) >= 2
          /\ { i \in 1..Len(out) : LineIs(i, ScaffoldOpen) } = {1}
          /\ { i \in 1..Len(out) : LineIs(i, ScaffoldEvents) } = {2}
          /\ OpenJsonDocument(Em) = Em

\* the playbook-start hook invoked after an event had opened the document
C8_Witness ==
    /\ last.hook = "start"
    /\ nCalls = 3
    /\ queued # <<>>
    /\ json_opened

\* the counters of a summary as the recap line shows them
ExpectedSummaryToks(s) ==
    << "{", Quote("ok"), ":", ToString(s.ok), ",",
       Quote("changed"), ":", ToString(s.changed), ",",
       Quote("unreachable"), ":", ToString(s.unreachable), ",",
       Quote("failed"), ":", ToString(s.failures), ",",
       Quote("skipped"), ":", ToString(s.skipped), ",",
       Quote("rescued"), ":", ToString(s.rescued), ",",
       Quote("ignored"), ":", ToString(s.ignored), "}" >>

\* C9: after the statistics hook play_recap holds one entry per host of the
\* statistics and nothing else, in ascending host-name order, each with the
\* host's seven counters, every entry line but the last ending with a comma.
C9_RecapEntries ==
    phase = "done" =>
        LET stats == last.stats
            open == EventsEndOf(out) + 1
            n == Len(out) - 2 - open
            Rank(h) == 1 + Cardinality({ g \in stats.processed :
                                         CodesLess(NameCodes[g], NameCodes[h]) })
        IN /\ LineIs(open - 1, EventsClose)
           /\ LineIs(open, RecapOpen)
           /\ LineIs(Len(out) - 1, RecapClose)
           /\ LineIs(Len(out), DocumentClose)
           /\ n = Cardinality(stats.processed)
           /\ \A h \in stats.processed :
                 LET line == out[open + Rank(h)]
                 IN /\ line.ind = 4
                    /\ StripComma(line).toks =
                          <<Quote(h), ": ">> \o ExpectedSummaryToks(stats.summary[h])
                    /\ EndsWithComma(line) <=> Rank(h) < n

\* three hosts, whose order as text differs from their order as numbers
C9_Witness ==
    /\ phase = "done"
    /\ last.stats.processed = {"h1", "h10", "h2"}
    /\ last.stats.summary["h2"].failures > 0
    /\ queued # <<>>

\* the value of a source as a boolean token, "none" when it yields none
TokenOf(v) ==
    IF v.t = "none" THEN "none"
    ELSE IF v.t = "bool" THEN (IF v.v THEN "true" ELSE "false")
    ELSE LET text == Lower(Strip(StrOf(v)))
         IN IF text \in TRUE_VALUES THEN "true"
            ELSE IF text \in FALSE_VALUES THEN "false"
            ELSE "none"

\* the sources in priority order: explicit option, primary variable, alias
Sources(call) ==
    << IF call.opt.raises THEN PyNone ELSE call.opt.value,
       call.env.primary, call.env.legacy >>

\* C10 as stated: the flag takes the value of the first source that yields a
\* recognized boolean token, and is false only if none does.
C10_FirstRecognizedSource ==
    last.hook = "set_options" =>
        LET src == Sources(last)
            rec == { i \in 1..3 : TokenOf(src[i]) # "none" }
        IN show_unchanged_ok_tasks =
              (rec # {} /\ TokenOf(src[CHOOSE i \in rec : \A j \in rec : i <= j]) = "true")

\* C10 amended: the flag is decided by the first source that is set at all
\* (the option when get_option returns a value, else the primary variable,
\* else the alias): true when that value is a recognized true token, false
\* when it is a false token, unrecognized, or when no source is set.
C10_FirstPresentSource ==
    last.hook = "set_options" =>
        LET src == Sources(last)
            set == { i \in 1..3 : src[i] # PyNone }
        IN show_unchanged_ok_tasks =
              (set # {} /\ TokenOf(src[CHOOSE i \in set : \A j \in set : i <= j]) = "true")

\* the option is unset, the primary variable is unrecognized and the alias
\* says yes: the flag stays false
C10_Witness ==
    /\ last.hook = "set_options"
    /\ Sources(last)[1] = PyNone
    /\ TokenOf(Sources(last)[2]) = "none" /\ Sources(last)[2] # PyNone
    /\ TokenOf(Sources(last)[3]) = "true"
    /\ ~show_unchanged_ok_tasks

---------------------------------------------------------------------------
(* _sanitize on values that may contain themselves.  A heap maps a node to  *)
(* its type and to the nodes it refers to: the values of a mapping, the     *)
(* elements of a sequence, the attributes of an attribute-bag object.       *)

SanNodes == {1, 2}

KidSeqs == {<<>>} \cup { <<a>> : a \in SanNodes } \cup (SanNodes \X SanNodes)

NodeShapes ==
    { [t |-> t, kids |-> <<>>] : t \in {"int", "bytes"} }
    \cup { [t |-> t, kids |-> k] : t \in {"dict", "list", "obj"}, k \in KidSeqs }

Heaps == [SanNodes -> NodeShapes]

SanRaised == [raised |-> TRUE, value |-> PyNone]
SanOk(v) == [raised |-> FALSE, value |-> v]

\* one call of _sanitize at call depth d on node n of heap h, taken as a value
\* of type k ("vars" for the mapping vars(value) of an object): the value it
\* returns, or that RecursionError leaves it
RECURSIVE SanitizeNode(_, _, _, _)
SanitizeNode(h, n, k, d) ==
    IF d > RecursionLimit THEN SanRaised
    ELSE LET kids == h[n].kids
             rs == [i \in 1..Len(kids) |->
                       SanitizeNode(h, kids[i], h[kids[i]].t, d + 1)]
         IN CASE k = "int" -> SanOk(PyInt(n))
              [] k = "bytes" -> SanOk(PyStr("bytes"))
              [] k = "obj" ->
                    LET r == SanitizeNode(h, n, "vars", d + 1)
                    IN IF r.raised THEN SanOk(PyStr("object")) ELSE r
              [] k \in {"dict", "vars"} ->
                    IF \E i \in 1..Len(kids) : rs[i].raised THEN SanRaised
                    ELSE SanOk(PyDict([i \in 1..Len(kids) |->
                                          <<ToString(i), rs[i].value>>]))
              [] k = "list" ->
                    IF \E i \in 1..Len(kids) : rs[i].raised THEN SanRaised
                    ELSE SanOk(PyList([i \in 1..Len(kids) |-> rs[i].value]))

\* self._sanitize(value) on the value at node 1 of heap h
SanitizeCall(h) ==
    /\ phase = "new"
    /\ last.hook = "init"
    /\ last' = [hook |-> "sanitize", heap |-> h,
                outcome |-> SanitizeNode(h, 1, h[1].t, 1)]
    /\ UNCHANGED <<show_unchanged_ok_tasks, emitted_events, json_opened,
                   pending_event_line, out, queued, phase, nCalls>>

NextSan == \E h \in Heaps : SanitizeCall(h)

SpecSan == Init /\ [][NextSan]_vars

RECURSIVE JsonSafe(_)
JsonSafe(v) ==
    CASE v.t \in {"none", "bool", "int", "str"} -> TRUE
      [] v.t = "dict" -> \A i \in 1..Len(v.items) : JsonSafe(v.items[i][2])
      [] v.t = "list" -> \A i \in 1..Len(v.items) : JsonSafe(v.items[i])
      [] OTHER -> FALSE

\* node n of heap h reaches itself
RECURSIVE Reach(_, _, _)
Reach(h, S, fuel) ==
    IF fuel = 0 THEN S
    ELSE Reach(h, S \cup UNION { { h[m].kids[i] : i \in 1..Len(h[m].kids) } : m \in S },
               fuel - 1)

Cyclic(h) ==
    \E n \in Reach(h, {1}, Cardinality(SanNodes)) :
        n \in Reach(h, { h[n].kids[i] : i \in 1..Len(h[n].kids) },
                    Cardinality(SanNodes))

\* C11: _sanitize never raises: for every value built from primitives, byte
\* strings, mappings, sequences and attribute bags, also one that contains
\* itself, the call returns, and what it returns is JSON-safe.
C11_SanitizeNeverRaises ==
    last.hook = "sanitize" =>
        /\ ~last.outcome.raised
        /\ JsonSafe(last.outcome.value)

\* C12: a failure is always reported.  After the failed hook, or the
\* unreachable hook, has run for a host and task the events hold exactly one
\* event of that kind for them; when none was there before the call, the call
\* queued it, with the whole result data of the call: whatever the flag,
\* ignore_errors, the item-result flag of the data, and the events of other
\* kinds already emitted for the same host and task.
C12_FailureAlwaysReported ==
    last.hook \in {"failed", "unreachable"} =>
        LET r == last.result
            n == Len(queued)
            E == EventsFor(last.hook, r.host, r.task.uuid)
        IN /\ Cardinality(E) = 1
           /\ last.added \in {0, 1}
           /\ (E \cap 1..(n - last.added) = {}) =>
                 /\ last.added = 1
                 /\ E = {n}
                 /\ DictGet(queued[n].payload, "result", PyNone) = r.result
                 /\ DictGet(queued[n].payload, "task", PyNone) = PyStr(r.task.name)

C12_Witness ==
    /\ last.hook = "failed"
    /\ last.ignore_errors
    /\ show_unchanged_ok_tasks
    /\ IsItemResult(last.result.result)
    /\ last.added = 1
    /\ EventsFor("changed", last.result.host, last.result.task.uuid) # {}
    /\ EventsFor("ok", last.result.host, last.result.task.uuid) # {}

\* the styling tier of a host with the counters s of the statistics
ExpectedTier(s) ==
    CASE s.unreachable > 0 -> <<"COLOR_UNREACHABLE", "COLOR_ERROR">>
      [] s.unreachable = 0 /\ s.failures > 0 -> <<"COLOR_ERROR">>
      [] s.unreachable = 0 /\ s.failures = 0 /\ s.changed > 0 ->
            <<"COLOR_CHANGED", "COLOR_WARN">>
      [] OTHER -> <<"COLOR_OK", "COLOR_VERBOSE">>

\* C13: each host's recap line is styled by the worst outcome among that
\* host's own counters: the unreachable tier when it was unreachable at all,
\* else the error tier when it had a failure, else the changed tier when it
\* had a change, else the ok tier; the counters of the other hosts play no
\* part.
C13_RecapTier ==
    phase = "done" =>
        LET stats == last.stats
            open == EventsEndOf(out) + 1
            Rank(h) == 1 + Cardinality({ g \in stats.processed :
                                         CodesLess(NameCodes[g], NameCodes[h]) })
        IN \A h \in stats.processed :
              out[open + Rank(h)].colors = ExpectedTier(stats.summary[h])

\* three hosts in three different tiers, the unreachable one with failures too
C13_Witness ==
    /\ phase = "done"
    /\ last.stats.processed = {"h1", "h10", "h2"}
    /\ last.stats.summary["h1"] = Summary(0, 0, 1, 1)
    /\ last.stats.summary["h10"] = Summary(1, 1, 0, 1)
    /\ last.stats.summary["h2"] = Summary(2, 1, 0, 0)
    /\ out[Len(out) - 4].colors = <<"COLOR_UNREACHABLE", "COLOR_ERROR">>
    /\ out[Len(out) - 3].colors = <<"COLOR_ERROR">>
    /\ out[Len(out) - 2].colors = <<"COLOR_CHANGED", "COLOR_WARN">>

\* C14: no queued event is lost or written twice.  The pending buffer is
\* empty or holds one block, the block of the event queued last; all events
\* queued before that one are written, each once and in turn; and once the
\* statistics hook has run the buffer is empty and as many blocks are written
\* as events were queued.
C14_NothingLostOrDuplicated ==
    LET n == Len(queued)
        lines == EventLinesOf(out)
        written == Cardinality(BlockEndsOf(lines))
    IN /\ IF pending_event_line.none
          THEN pending_event_line = NoPending /\ written = n
          ELSE /\ n >= 1
               /\ pending_event_line.lines = queued[n].lines
               /\ pending_event_line.colors = queued[n].colors
               /\ written = n - 1
       /\ Len(lines) = Len(Flatten([k \in 1..written |-> queued[k].lines]))
       /\ \A k \in 1..written :
             LET before == Len(Flatten([j \in 1..(k - 1) |-> queued[j].lines]))
             IN \A i \in 1..Len(queued[k].lines) :
                   Unseparated(lines[before + i]) = QueuedBlock(queued[k])[i]
       /\ phase = "done" => pending_event_line.none /\ written = n

\* two events written, a third one pending
C14_Witness ==
    /\ ~pending_event_line.none
    /\ Len(queued) = 3
    /\ Cardinality(BlockEndsOf(EventLinesOf(out))) = 2
    /\ pending_event_line.lines = queued[3].lines

\* the step is a hook invocation of one of the four kinds that emit nothing:
\* the whole-task ok hook on an item-flagged result; an unchanged result of a
\* non-debug task handed to the classifier while the flag is false; the
\* task-start hook; a result whose kind, host and task already have an event
SilentCall ==
    /\ nCalls' = nCalls + 1
    /\ \/ /\ last'.hook = "ok"
          /\ Truthy(DictGet(last'.result.result, "_ansible_item_result",
                            PyBool(FALSE)))
       \/ /\ LastClassifiedNonDebug'
          /\ ~Truthy(DictGet(last'.result.result, "changed", PyBool(FALSE)))
          /\ ~NestedChanged(last'.result.result)
          /\ ~show_unchanged_ok_tasks
       \/ last'.hook = "task_start"
       \/ /\ last'.hook \in ResultHooks
          /\ LastKind' # "none"
          /\ EventsFor(LastKind', last'.result.host, last'.result.task.uuid) # {}

\* C15: a hook invocation that emits no event leaves the emission state and
\* the output as they were: the set of event keys, the opened flag, the
\* pending buffer and the lines written (so it does not open the document).
C15_SilentHooksChangeNothing ==
    [][SilentCall =>
         UNCHANGED <<emitted_events, json_opened, pending_event_line, out, queued>>]_vars

\* a whole-task ok hook on an item-flagged result was the first hook, and the
\* document is still unopened
C15_Witness ==
    /\ last.hook = "ok"
    /\ nCalls = 1
    /\ Truthy(DictGet(last.result.result, "_ansible_item_result", PyBool(FALSE)))
    /\ ~json_opened
    /\ out = <<>>

\* C16: the classifier tests debug first, then changed, then unchanged.  A
\* result of a debug-action task handed to it is reported as the task/debug
\* pair, recorded under the kind `debug`, and never as `changed` or `ok`,
\* also when it carries changed=true or the flag is true; a result of a
\* non-debug task that is changed is reported as `changed` and the call never
\* queues an `ok` event for it, whatever the flag.
C16_ClassificationPriority ==
    LET r == last.result
        n == Len(queued)
    IN /\ \A i \in 1..n :
             EventKind(queued[i]) \in {"changed", "ok"} =>
                 /\ queued[i].tid # DebugTask.uuid
                 /\ DictGet(queued[i].payload, "task", PyNone) # PyStr(DebugTask.name)
       /\ LastClassifiedDebug =>
             /\ last.added \in {0, 2}
             /\ last.added = 2 =>
                   /\ EventKind(queued[n - 1]) = "task"
                   /\ EventKind(queued[n]) = "debug"
             /\ <<"debug", r.host, r.task.uuid>> \in emitted_events
             /\ <<"changed", r.host, r.task.uuid>> \notin emitted_events
             /\ <<"ok", r.host, r.task.uuid>> \notin emitted_events
       /\ (/\ LastClassifiedNonDebug
           /\ \/ Truthy(DictGet(r.result, "changed", PyBool(FALSE)))
              \/ NestedChanged(r.result)) =>
             /\ last.added \in {0, 1}
             /\ last.added = 1 => EventKind(queued[n]) = "changed"
             /\ <<"changed", r.host, r.task.uuid>> \in emitted_events

\* a debug-action result that carries changed=true, handled with the flag true
C16_Witness ==
    /\ LastClassifiedDebug
    /\ show_unchanged_ok_tasks
    /\ Truthy(DictGet(last.result.result, "changed", PyBool(FALSE)))
    /\ last.added = 2
    /\ EventKind(queued[Len(queued)]) = "debug"

---------------------------------------------------------------------------
(* Tasks without a stable identifier *)

FetchTask == [has_uuid |-> FALSE, uuid |-> "", name |-> "fetch",
              action |-> "fetch", role |-> PyNone]
PlainCopyTask == [has_uuid |-> FALSE, uuid |-> "", name |-> "copy",
                  action |-> "copy", role |-> PyNone]
\* another task that shows the same display name
PlainCopyTask2 == [has_uuid |-> FALSE, uuid |-> "", name |-> "copy",
                   action |-> "template", role |-> PyStr("web")]
CopyTask3 == [has_uuid |-> TRUE, uuid |-> "u3", name |-> "copy",
              action |-> "copy", role |-> PyNone]

KeyTasks == {FetchTask, PlainCopyTask, PlainCopyTask2, CopyTask, CopyTask3}

NextKey ==
    \/ SetOptions(NoOpt, NoEnv)
    \/ \E t \in KeyTasks : RunnerOnOk(MkResult("h1", t, DataChanged))
    \/ \E t \in KeyTasks : RunnerOnFailed(MkResult("h1", t, DataFailed), FALSE)
    \/ \E s \in MainStats : OnStats(s)

SpecKey == Init /\ [][NextKey]_vars

\* the identity the claim gives a task
ClaimedIdentity(task) == IF task.has_uuid THEN task.uuid ELSE task.name

\* C17: a task without a stable identifier is told apart by its display name,
\* a task with one by the identifier.  After a hook has handled a result the
\* key of its kind, host and claimed identity is recorded; the recorded keys
\* are keys of that form; and there is one event per recorded key: so tasks
\* without an identifier and with different names are both emitted, two with
\* the same name count as one, and tasks with the same name and different
\* identifiers are both emitted (the four tasks named "copy", two of them
\* with an identifier, yield at most three events of a kind).
C17_IdentityFallsBackToName ==
    LET kindOf == [hk \in {"ok", "failed"} |-> IF hk = "ok" THEN "changed" ELSE hk]
    IN /\ last.hook \in {"ok", "failed"} =>
             <<kindOf[last.hook], last.result.host,
               ClaimedIdentity(last.result.task)>> \in emitted_events
       /\ emitted_events \subseteq
             { <<k, "h1", ClaimedIdentity(t)>> :
                 k \in {"changed", "failed"}, t \in KeyTasks }
       /\ Len(queued) = Cardinality(emitted_events)
       /\ \A i \in 1..Len(queued) :
             Cardinality({ j \in 1..Len(queued) :
                             /\ EventKind(queued[j]) = EventKind(queued[i])
                             /\ DictGet(queued[j].payload, "task", PyNone)
                                  = DictGet(queued[i].payload, "task", PyNone) })
               <= 3

\* the second task named "copy" without an identifier was suppressed after
\* the first one, and a task named "copy" with an identifier was emitted
C17_Witness ==
    /\ nCalls = 3
    /\ last.hook = "ok"
    /\ last.result.task = PlainCopyTask2
    /\ last.added = 0
    /\ emitted_events = {<<"changed", "h1", "copy">>, <<"changed", "h1", "u2">>}
    /\ Len(queued) = 2

OkCount(h, tid) == Cardinality(EventsFor("ok", h, tid))

\* C18 as stated: whatever per-item and whole-task ok hooks ran for a task on
\* a host, and whatever the flag, the events hold at most one event of the
\* kinds `changed` and `ok` together for that host and task, never one of each.
C18_OneSuccessEvent ==
    \A h \in EventHosts, tid \in TaskIds :
        ChangedCount(h, tid) + OkCount(h, tid) <= 1

\* C18, amended: whatever per-item and whole-task ok hooks ran for a task on
\* a host, the events hold at most one `changed` event and at most one `ok`
\* event for that host and task, and no `ok` event while the flag is false
\* (so at most one of the two kinds then); with the flag true they can hold
\* one of each.
C18_OneSuccessEventPerKind ==
    \A h \in EventHosts, tid \in TaskIds :
        /\ ChangedCount(h, tid) <= 1
        /\ OkCount(h, tid) <= 1
        /\ ~show_unchanged_ok_tasks => OkCount(h, tid) = 0

\* the per-item hook reported an unchanged item and then a changed item of
\* the same task on the same host, with the flag true: one event of each kind
C18_Witness ==
    /\ show_unchanged_ok_tasks
    /\ nCalls = 2
    /\ last.hook = "item_ok"
    /\ last.result.result = DataItemChanged
    /\ last.added = 1
    /\ ChangedCount(last.result.host, last.result.task.uuid) = 1
    /\ OkCount(last.result.host, last.result.task.uuid) = 1

---------------------------------------------------------------------------
(* One sequence of hook invocations under either value of the flag.  The    *)
(* state follows the run with the flag true; `last` keeps the invocations,  *)
(* from which the run with the flag false is computed.                      *)

NewEm == [emitted_events |-> {}, json_opened |-> FALSE, pending |-> NoPending,
          out |-> <<>>, queued |-> <<>>]

\* one hook invocation, on the emitter state
HookStep(em, flag, call) ==
    CASE call.hook = "ok" ->
            IF IsItemResult(DataOf(call.result)) THEN em
            ELSE HandleOkResult(em, flag, call.result)
      [] call.hook = "item_ok" -> HandleOkResult(em, flag, call.result)
      [] call.hook = "start" -> OpenJsonDocument(em)
      [] call.hook = "task_start" -> em
      [] call.hook = "failed" ->
            EmitResultEvent(em, "failed", call.result, <<"COLOR_ERROR">>)
      [] call.hook = "unreachable" ->
            EmitResultEvent(em, "unreachable", call.result,
                            <<"COLOR_UNREACHABLE", "COLOR_ERROR">>)
      [] call.hook = "stats" -> PlaybookOnStats(em, call.stats)

RECURSIVE RunHooks(_, _, _)
RunHooks(em, flag, calls) ==
    IF calls = <<>> THEN em
    ELSE RunHooks(HookStep(em, flag, Head(calls)), flag, Tail(calls))

PairCall(hook, result) == [hook |-> hook, result |-> result, stats |-> NoStats]

PairCalls ==
    { PairCall("ok", MkResult("h1", DebugTask, DataMsg)),
      PairCall("item_ok", MkResult("h1", DebugTask, DataMsg)),
      PairCall("failed", MkResult("h1", CopyTask, DataFailed)),
      PairCall("unreachable", MkResult("h1", CopyTask, DataUnreachable)),
      PairCall("start", NoResult),
      PairCall("task_start", NoResult) }
    \cup { PairCall("ok", MkResult("h1", CopyTask, d)) :
             d \in {DataChanged, DataUnchanged, DataLoop, DataItemUnchanged} }
    \cup { PairCall("item_ok", MkResult(h, CopyTask, d)) :
             h \in EventHosts, d \in {DataItemChanged, DataItemUnchanged} }

PastCalls == IF last.hook = "pair" THEN last.calls ELSE <<>>

PairHook(call) ==
    /\ Running
    /\ SetEm(HookStep(Em, show_unchanged_ok_tasks, call))
    /\ last' = [hook |-> "pair", calls |-> Append(PastCalls, call)]
    /\ nCalls' = nCalls + 1
    /\ UNCHANGED <<show_unchanged_ok_tasks, phase>>

PairStats(stats) ==
    /\ phase = "running"
    /\ SetEm(HookStep(Em, show_unchanged_ok_tasks,
                      [PairCall("stats", NoResult) EXCEPT !.stats = stats]))
    /\ last' = [hook |-> "pair",
                calls |-> Append(PastCalls,
                                 [PairCall("stats", NoResult) EXCEPT !.stats = stats])]
    /\ phase' = "done"
    /\ UNCHANGED <<show_unchanged_ok_tasks, nCalls>>

\* the options that resolve the flag to true
NextPair ==
    \/ \E o \in MainOptions :
          ResolveShowUnchanged(o[1], o[2]) /\ SetOptions(o[1], o[2])
    \/ \E c \in PairCalls : PairHook(c)
    \/ \E s \in MainStats : PairStats(s)

SpecPair == Init /\ [][NextPair]_vars

NotOk(q) == EventKind(q) # "ok"

\* the lines of a finished document from the line that closes the events on
RecapOf(o) == SubSeq(o, EventsEndOf(o), Len(o))

\* C19: the flag only adds `ok` events.  For any sequence of hook
\* invocations, the events queued with the flag true, the `ok` events left
\* out, are the events queued for the same invocations with the flag false,
\* in the same order; and once the statistics hook has run, the lines from
\* the close of the events to the end of the document are the same in both.
C19_FlagOnlyAddsOk ==
    last.hook = "pair" =>
        LET off == RunHooks(NewEm, FALSE, last.calls)
        IN /\ SelectSeq(queued, NotOk) = off.queued
           /\ \A i \in 1..Len(off.queued) : NotOk(off.queued[i])
           /\ phase = "done" => RecapOf(out) = RecapOf(off.out)

\* a finished run in which the flag added an `ok` event between other events
C19_Witness ==
    /\ last.hook = "pair"
    /\ phase = "done"
    /\ Len(queued) = 3
    /\ EventKind(queued[1]) = "changed"
    /\ EventKind(queued[2]) = "ok"
    /\ EventKind(queued[3]) = "failed"
    /\ Len(RunHooks(NewEm, FALSE, last.calls).queued) = 2

\* line i of the transcript is one of the two lines of the opening scaffold
IsScaffold(i) == LineIs(i, ScaffoldOpen) \/ LineIs(i, ScaffoldEvents)

\* C20: the opening scaffold precedes all other output, in whatever order
\* the hooks are invoked: the transcript only grows at its end, and every
\* line of it that is not a scaffold line (an event line, the line closing
\* the events, a recap line, the line closing the document) comes after the
\* two scaffold lines at its head: also when the playbook-start hook never
\* ran and when the statistics hook ran first.
C20_ScaffoldFirst ==
    /\ [](\A i \in 1..Len(out) :
             ~IsScaffold(i) =>
                 /\ i >= 3
                 /\ LineIs(1, ScaffoldOpen)
                 /\ LineIs(2, ScaffoldEvents))
    /\ [][/\ Len(out') >= Len(out)
          /\ SubSeq(out', 1, Len(out)) = out]_vars

\* the statistics hook was the first and only hook invoked
C20_Witness ==
    /\ phase = "done"
    /\ nCalls = 0
    /\ last.hook = "stats"
    /\ Len(out) > 2
    /\ LineIs(1, ScaffoldOpen)
    /\ LineIs(2, ScaffoldEvents)
    /\ LineIs(3, EventsClose)

====
